---- MODULE Spec2Model ----
(***************************************************************************)
(* Page Replacement Algorithm Analyzer (PageReplacementAnalyzer.cpp).      *)
(*                                                                         *)
(* Two specifications over one set of variables:                           *)
(*   Spec       process::runProcess on an arbitrary process object: the    *)
(*              four RAM::processRAM implementations, one trace reference   *)
(*              per step;                                                  *)
(*   SweepSpec  handler::analyzeOnAllPageSize: the page-size sweep with    *)
(*              analyze::runProcesses / analyze::mergeOutput, executed     *)
(*              twice from the same rand() sequence.                       *)
(* Trace positions are 0-based as in the source; the TLA+ sequence pageID  *)
(* holds position i at index i + 1.                                        *)
(***************************************************************************)
EXTENDS Integers, Sequences, FiniteSets, TLC

VARIABLES
    pageID,         \* process::pageID, the reference string
    noOfPages,      \* process::noOfPages / analyze::noOfPages
    noOfRAMPages,   \* process::noOfRAMPages / analyze::noOfRAMPages
    processOutput,  \* local of process::runProcess: algoID -> <<miss, total>>
    algo,           \* the algorithm whose processRAM is executing, or "none"
    ram,            \* locals of the executing processRAM
    todo,           \* entries of `mapping` the loop of runProcess has not visited
    RAMSize,        \* handler::RAMSize
    noOfProcess,    \* handler::noOfProcess
    processSize,    \* handler::processSize
    curPageSize,    \* loop variable of handler::analyzeOnAllPageSize
    procIdx,        \* loop variable i of analyze::runProcesses
    curOutput,      \* analyze::curOutput
    mainOutput,     \* output::mainOutput, the result matrix
    hpc,            \* position of the handler: "create", "run", "done"
    randSeq,        \* the sequence rand() yields in this build (never reseeded)
    randPos,        \* number of rand() calls made so far in this execution
    rows,           \* the processOutput rows merged so far for curPageSize
    rowArgs,        \* per appended matrix row: the analyze object that made it
    execNo,         \* which execution of main() this is (1 or 2)
    firstOutput     \* mainOutput of the first execution, kept for comparison

vars == <<pageID, noOfPages, noOfRAMPages, processOutput, algo, ram, todo,
          RAMSize, noOfProcess, processSize, curPageSize, procIdx, curOutput,
          mainOutput, hpc, randSeq, randPos, rows, rowArgs, execNo, firstOutput>>

policyVars == <<pageID, noOfPages, noOfRAMPages, processOutput, algo, ram, todo>>
sweepVars == <<RAMSize, noOfProcess, processSize, curPageSize, procIdx, curOutput,
               mainOutput, hpc, randSeq, randPos, rows, rowArgs, execNo, firstOutput>>

----------------------------------------------------------------------------
(* Bounds of the exploration *)

MaxLen == 4         \* longest enumerated trace
MaxId == 3          \* largest page identifier in an enumerated trace
MaxCap == 3         \* largest frame capacity tried
MaxRAMSize == 3     \* largest RAM size entered
MaxProcessSize == 3 \* largest process size entered
MaxProcesses == 2   \* largest number of processes entered
RandLen == 3        \* period of the enumerated rand() sequences
\* References generated per page of the process.  createProcess line 388
\* multiplies by 100; whole traces of that length are beyond enumeration, so
\* the sweep is explored with this smaller multiplier.
BlocksPerPage == 2

(* Program constants *)

MISS == 0
TOTAL == 1

\* `mapping`: algorithm name -> algoID
AlgoID == [a \in {"OPT", "FIFO", "LRU", "MRU"} |->
             CASE a = "OPT" -> 1 [] a = "FIFO" -> 2 [] a = "LRU" -> 3 [] a = "MRU" -> 4]

Algos == DOMAIN AlgoID

INT_MAX == 2147483647

\* The fixed regression input of the concrete scenario
Scenario == [trace |-> <<1, 2, 3, 4, 1, 2, 5, 1, 2, 3, 4, 5>>, cap |-> 3]

----------------------------------------------------------------------------
(* Helpers *)

Range(s) == {s[k] : k \in DOMAIN s}

Max(S) == CHOOSE x \in S : \A y \in S : y <= x

Min(a, b) == IF a <= b THEN a ELSE b

\* vector<int>{miss, total}; index MISS is the first component
Pair(miss, total) == <<miss, total>>
MissOf(p) == p[MISS + 1]
TotalOf(p) == p[TOTAL + 1]

\* pageID[i], 0-based, for an index inside the vector
At(trace, i) == trace[i + 1]

\* m[k] = v on a std::map / std::unordered_map
MapPut(m, k, v) == [x \in (DOMAIN m) \cup {k} |-> IF x = k THEN v ELSE m[x]]

\* m[k] as an rvalue: a missing key is value-initialised to 0
MapGet(m, k) == IF k \in DOMAIN m THEN m[k] ELSE 0

EmptyMap == [x \in {} |-> 0]

\* What a read of memory the program does not own (past the end of pageID,
\* an uninitialised local, the front of an empty queue) may yield: any int.
\* All values that are not identifiers of the trace act alike (erasing them
\* from the resident set does nothing); 0 stands for them.
GarbageVals(trace) == {0} \cup Range(trace)

----------------------------------------------------------------------------
(* RAM::processRAM: locals and one loop iteration per policy.  A step       *)
(* operator yields the SET of states the iteration can end in: more than   *)
(* one where the iteration reads memory it does not own or where the scan  *)
(* order of an unordered_set decides.                                      *)

\* OPT lines 497-503: next[i] by the backward scan with futureIndex
RECURSIVE NextScan(_, _, _, _)
NextScan(trace, i, next, futureIndex) ==
    IF i < 0 THEN next
    ELSE LET id == At(trace, i) IN
         NextScan(trace, i - 1,
                  IF id \in DOMAIN futureIndex
                      THEN [next EXCEPT ![i + 1] = futureIndex[id]]
                      ELSE next,
                  MapPut(futureIndex, id, i))

NextArr(trace) ==
    NextScan(trace, Len(trace) - 1, [k \in 1..Len(trace) |-> Len(trace)], EmptyMap)

\* The locals at loop entry.  Fields a policy does not declare stay empty.
InitRAM(a, trace) ==
    [i |-> 0, missCount |-> 0, total |-> Len(trace), cache |-> {},
     order |-> <<>>, lastUsed |-> EmptyMap, occSet |-> {},
     next |-> IF a = "OPT" THEN NextArr(trace) ELSE <<>>]

\* FIFOStep with the fullness test one frame early (size + 1 == capacity)
FIFOStepEvictEarly(s, trace, cap) ==
    LET id == At(trace, s.i) IN
    IF id \in s.cache THEN {[s EXCEPT !.i = @ + 1]}
    ELSE IF Cardinality(s.cache) + 1 = cap /\ s.order # <<>>
         THEN {[s EXCEPT !.i = @ + 1, !.missCount = @ + 1,
                         !.cache = (@ \ {Head(s.order)}) \cup {id},
                         !.order = Append(Tail(@), id)]}
         ELSE {[s EXCEPT !.i = @ + 1, !.missCount = @ + 1,
                         !.cache = @ \cup {id},
                         !.order = Append(@, id)]}

\* FIFOStep evicting the back of the queue (the newest resident)
FIFOStepEvictNewest(s, trace, cap) ==
    LET id == At(trace, s.i) IN
    IF id \in s.cache THEN {[s EXCEPT !.i = @ + 1]}
    ELSE IF Cardinality(s.cache) = cap /\ s.order # <<>>
         THEN {[s EXCEPT !.i = @ + 1, !.missCount = @ + 1,
                         !.cache = (@ \ {s.order[Len(s.order)]}) \cup {id},
                         !.order = Append(SubSeq(@, 1, Len(@) - 1), id)]}
         ELSE {[s EXCEPT !.i = @ + 1, !.missCount = @ + 1,
                         !.cache = @ \cup {id},
                         !.order = Append(@, id)]}

\* FIFO lines 436-446.  front()/pop() of an empty queue (reached only with
\* capacity 0) read and release an element that is not there.
FIFOStep(s, trace, cap) ==
    LET id == At(trace, s.i) IN
    IF id \in s.cache THEN {[s EXCEPT !.i = @ + 1]}
    ELSE IF Cardinality(s.cache) = cap
         THEN IF s.order # <<>>
              THEN {[s EXCEPT !.i = @ + 1, !.missCount = @ + 1,
                              !.cache = (@ \ {Head(s.order)}) \cup {id},
                              !.order = Append(Tail(@), id)]}
              ELSE {[s EXCEPT !.i = @ + 1, !.missCount = @ + 1,
                              !.cache = (@ \ {g}) \cup {id},
                              !.order = q]
                       : g \in GarbageVals(trace), q \in {<<>>, <<id>>}}
         ELSE {[s EXCEPT !.i = @ + 1, !.missCount = @ + 1,
                         !.cache = @ \cup {id},
                         !.order = Append(@, id)]}

\* LRU lines 459-462: the values `val` can hold after the scan of cache.
\* Scan order is unspecified, so any resident with the least lastUsed may be
\* the first one met; with no resident below INT_MAX val stays uninitialised.
LRUVictims(s, trace) ==
    LET C == {p \in s.cache : MapGet(s.lastUsed, p) < INT_MAX
                              /\ \A q \in s.cache :
                                    MapGet(s.lastUsed, p) <= MapGet(s.lastUsed, q)}
    IN IF C = {} THEN GarbageVals(trace) ELSE C

\* LRUStep that records the position on a miss only
LRUStepNoTouchOnHit(s, trace, cap) ==
    LET id == At(trace, s.i) IN
    IF id \in s.cache
    THEN {[s EXCEPT !.i = @ + 1]}
    ELSE IF Cardinality(s.cache) = cap
         THEN {[s EXCEPT !.i = @ + 1, !.missCount = @ + 1,
                         !.cache = (@ \ {val}) \cup {id},
                         !.lastUsed = MapPut(@, id, s.i)]
                  : val \in LRUVictims(s, trace)}
         ELSE {[s EXCEPT !.i = @ + 1, !.missCount = @ + 1,
                         !.cache = @ \cup {id},
                         !.lastUsed = MapPut(@, id, s.i)]}

\* LRUStep without the erase of the victim
LRUStepNoErase(s, trace, cap) ==
    LET id == At(trace, s.i) IN
    IF id \in s.cache
    THEN {[s EXCEPT !.i = @ + 1, !.lastUsed = MapPut(@, id, s.i)]}
    ELSE {[s EXCEPT !.i = @ + 1, !.missCount = @ + 1,
                    !.cache = @ \cup {id},
                    !.lastUsed = MapPut(@, id, s.i)]}

\* LRU lines 455-468
LRUStep(s, trace, cap) ==
    LET id == At(trace, s.i) IN
    IF id \in s.cache
    THEN {[s EXCEPT !.i = @ + 1, !.lastUsed = MapPut(@, id, s.i)]}
    ELSE IF Cardinality(s.cache) = cap
         THEN {[s EXCEPT !.i = @ + 1, !.missCount = @ + 1,
                         !.cache = (@ \ {val}) \cup {id},
                         !.lastUsed = MapPut(@, id, s.i)]
                  : val \in LRUVictims(s, trace)}
         ELSE {[s EXCEPT !.i = @ + 1, !.missCount = @ + 1,
                         !.cache = @ \cup {id},
                         !.lastUsed = MapPut(@, id, s.i)]}

\* MRUVictims scanning for the least lastUsed, as LRU does
MRUVictimsLeast(s, trace) == LRUVictims(s, trace)

\* MRU lines 481-484: as LRUVictims, greatest lastUsed above -1
MRUVictims(s, trace) ==
    LET C == {p \in s.cache : MapGet(s.lastUsed, p) > -1
                              /\ \A q \in s.cache :
                                    MapGet(s.lastUsed, p) >= MapGet(s.lastUsed, q)}
    IN IF C = {} THEN GarbageVals(trace) ELSE C

\* MRU lines 477-490
MRUStep(s, trace, cap) ==
    LET id == At(trace, s.i) IN
    IF id \in s.cache
    THEN {[s EXCEPT !.i = @ + 1, !.lastUsed = MapPut(@, id, s.i)]}
    ELSE IF Cardinality(s.cache) = cap
         THEN {[s EXCEPT !.i = @ + 1, !.missCount = @ + 1,
                         !.cache = (@ \ {val}) \cup {id},
                         !.lastUsed = MapPut(@, id, s.i)]
                  : val \in MRUVictims(s, trace)}
         ELSE {[s EXCEPT !.i = @ + 1, !.missCount = @ + 1,
                         !.cache = @ \cup {id},
                         !.lastUsed = MapPut(@, id, s.i)]}

\* OPT line 511: *occSet.rbegin(); of an empty set it is no element at all
OPTRemoveAt(s, trace) ==
    IF s.occSet = {} THEN GarbageVals(trace) ELSE {Max(s.occSet)}

\* OPT line 513: pageID[removeAt]; an index outside [0, total) reads past
\* the vector
OPTVictims(trace, removeAt) ==
    IF removeAt >= 0 /\ removeAt < Len(trace)
        THEN {At(trace, removeAt)}
        ELSE GarbageVals(trace)

\* OPT lines 508-522; occSet is a std::set<int>: equal indices are one entry
OPTStep(s, trace, cap) ==
    LET id == At(trace, s.i)
        nx == s.next[s.i + 1]
    IN
    IF id \in s.cache
    THEN {[s EXCEPT !.i = @ + 1, !.occSet = (@ \ {s.i}) \cup {nx}]}
    ELSE IF Cardinality(s.cache) = cap
         THEN UNION {{[s EXCEPT !.i = @ + 1, !.missCount = @ + 1,
                               !.cache = (@ \ {val}) \cup {id},
                               !.occSet = (@ \ {removeAt}) \cup {nx}]
                         : val \in OPTVictims(trace, removeAt)}
                     : removeAt \in OPTRemoveAt(s, trace)}
         ELSE {[s EXCEPT !.i = @ + 1, !.missCount = @ + 1,
                         !.cache = @ \cup {id},
                         !.occSet = @ \cup {nx}]}

\* Virtual dispatch of RAM::processRAM: one iteration of the policy's loop
Step(a, s, trace, cap) ==
    CASE a = "FIFO" -> FIFOStep(s, trace, cap)
      [] a = "LRU" -> LRUStep(s, trace, cap)
      [] a = "MRU" -> MRUStep(s, trace, cap)
      [] a = "OPT" -> OPTStep(s, trace, cap)

\* Result with the two components in the wrong order
ResultSwapped(s) == Pair(s.total, s.missCount)

\* return {missCount, total}
Result(s) == Pair(s.missCount, s.total)

\* No processRAM is executing
NoRAM == InitRAM("none", <<>>)

\* IsSentinel with the test left out
IsSentinelNever(nPages) == FALSE

\* process::runProcess line 401: the page-size-0 sentinel
IsSentinel(nPages) == nPages = -1

\* process::runProcess line 399: mapping.size() + 1 rows of {-1, -1}
BlankOutput == [k \in 0..Cardinality(Algos) |-> Pair(-1, -1)]

----------------------------------------------------------------------------
(* process::runProcess, lines 398-409, on a given process object *)

\* Reference strings up to MaxLen over identifiers 1..MaxId
Traces == UNION {[1..n -> 1..MaxId] : n \in 0..MaxLen}

\* The handler is not running under Spec
SweepIdle ==
    /\ RAMSize = 0 /\ noOfProcess = 0 /\ processSize = 0
    /\ curPageSize = 0 /\ procIdx = 0
    /\ curOutput = <<>> /\ mainOutput = <<>> /\ hpc = "idle"
    /\ randSeq = <<>> /\ randPos = 0
    /\ rows = <<>> /\ rowArgs = <<>>
    /\ execNo = 0 /\ firstOutput = <<>>

\* Entry of runProcess on a process object: an enumerated trace with a
\* capacity in 0..MaxCap, the regression scenario, or the object
\* createProcess(-1, -1) builds for page size 0.
Init ==
    /\ \/ /\ pageID \in Traces
          /\ noOfRAMPages \in 0..MaxCap
          /\ noOfPages = MaxId
       \/ /\ pageID = Scenario.trace
          /\ noOfRAMPages = Scenario.cap
          /\ noOfPages = Cardinality(Range(Scenario.trace))
       \/ /\ pageID = <<>>
          /\ noOfRAMPages = -1
          /\ noOfPages = -1
    /\ processOutput = BlankOutput
    /\ algo = "none"
    /\ ram = NoRAM
    /\ todo = Algos
    /\ SweepIdle

\* lines 401-404: the sentinel row, no policy is built
SkipAlgo(a) ==
    /\ algo = "none" /\ a \in todo
    /\ IsSentinel(noOfPages)
    /\ processOutput' = [processOutput EXCEPT ![AlgoID[a]] = Pair(-1, -1)]
    /\ todo' = todo \ {a}
    /\ UNCHANGED <<pageID, noOfPages, noOfRAMPages, algo, ram>>
    /\ UNCHANGED sweepVars

\* lines 405-406: createFunction and entry of processRAM up to its main loop
InvokeAlgo(a) ==
    /\ algo = "none" /\ a \in todo
    /\ ~IsSentinel(noOfPages)
    /\ algo' = a
    /\ ram' = InitRAM(a, pageID)
    /\ todo' = todo \ {a}
    /\ UNCHANGED <<pageID, noOfPages, noOfRAMPages, processOutput>>
    /\ UNCHANGED sweepVars

\* one iteration of the main loop of the executing processRAM
Reference ==
    /\ algo # "none"
    /\ ram.i < ram.total
    /\ ram' \in Step(algo, ram, pageID, noOfRAMPages)
    /\ UNCHANGED <<pageID, noOfPages, noOfRAMPages, processOutput, algo, todo>>
    /\ UNCHANGED sweepVars

\* loop exit: return {missCount, total} into processOutput[algoID], line 406
ReturnAlgo ==
    /\ algo # "none"
    /\ ram.i >= ram.total
    /\ processOutput' = [processOutput EXCEPT ![AlgoID[algo]] = Result(ram)]
    /\ algo' = "none"
    /\ ram' = NoRAM
    /\ UNCHANGED <<pageID, noOfPages, noOfRAMPages, todo>>
    /\ UNCHANGED sweepVars

Next ==
    \/ \E a \in Algos : SkipAlgo(a)
    \/ \E a \in Algos : InvokeAlgo(a)
    \/ Reference
    \/ ReturnAlgo

Spec == Init /\ [][Next]_vars

\* runProcess has returned processOutput
Returned == algo = "none" /\ todo = {}

----------------------------------------------------------------------------
(* processRAM and runProcess as functions of the process object, for the   *)
(* sweep: the same loop iterations, run to completion.                     *)

\* the states the loop can be in after all references, from the states S
RECURSIVE RunLoop(_, _, _, _)
RunLoop(a, S, trace, cap) ==
    IF \A s \in S : s.i >= s.total THEN S
    ELSE RunLoop(a, UNION {Step(a, s, trace, cap) : s \in S}, trace, cap)

\* the pairs processRAM can return
ProcessRAM(a, trace, cap) ==
    {Result(s) : s \in RunLoop(a, {InitRAM(a, trace)}, trace, cap)}

\* runProcess lines 398-409: the rows it can return
RunProcess(trace, nPages, cap) ==
    IF IsSentinel(nPages) THEN {BlankOutput}
    ELSE {[BlankOutput EXCEPT ![AlgoID["OPT"]] = o, ![AlgoID["FIFO"]] = f,
                              ![AlgoID["LRU"]] = l, ![AlgoID["MRU"]] = m]
             : o \in ProcessRAM("OPT", trace, cap),
               f \in ProcessRAM("FIFO", trace, cap),
               l \in ProcessRAM("LRU", trace, cap),
               m \in ProcessRAM("MRU", trace, cap)}

----------------------------------------------------------------------------
(* handler::analyzeOnAllPageSize and class analyze, lines 329-375 *)

\* std::vector as a function on 0 .. size-1
VecSize(v) == Cardinality(DOMAIN v)
PushBack(v, x) == [k \in 0..VecSize(v) |-> IF k < VecSize(v) THEN v[k] ELSE x]

\* rand(): call number pos (from 0) of this execution
Rand(seq, pos) == seq[(pos % Len(seq)) + 1]

\* a + b as a 32-bit two's-complement int wraps it, for a, b in 0 .. INT_MAX
\* or a < 0 <= b (a - 2^32 + b is computed without leaving the int range)
Add32(a, b) ==
    IF a > INT_MAX - b THEN (a - INT_MAX - 1) + (b - INT_MAX - 1) ELSE a + b

\* k * n wrapped to 32 bits, for k >= 0 and n in 0 .. INT_MAX
RECURSIVE Mul32(_, _)
Mul32(k, n) == IF k = 0 THEN 0 ELSE Add32(Mul32(k - 1, n), n)

\* createProcess line 388: int noOfBlocks = 100 * noOfPages, the values the
\* local can hold.  A product above INT_MAX is a signed overflow, undefined:
\* the build may leave the wrapped product or any other int; 0 stands for
\* those that are not positive (the loop of line 390 does not run) and 1 for
\* a positive one.
NoOfBlocks(nPages) ==
    IF nPages <= INT_MAX \div BlocksPerPage
        THEN {BlocksPerPage * nPages}
        ELSE {Mul32(BlocksPerPage, nPages), 0, 1}

\* createProcess lines 387-393: the reference strings it can build, rand()
\* calls from pos
CreateProcess(nPages, seq, pos) ==
    {[k \in 1..n |-> (Rand(seq, pos + k - 1) % nPages) + 1] : n \in NoOfBlocks(nPages)}

\* PagesPerProcess rounding down instead of up
PagesPerProcessFloor(pSize, pageSize) ==
    IF pageSize = 0 THEN -1 ELSE pSize \div pageSize

\* createAnalyze line 350
PagesPerProcess(pSize, pageSize) ==
    IF pageSize = 0 THEN -1 ELSE (pSize + pageSize - 1) \div pageSize

\* createAnalyze line 351
FrameCapacity(rSize, pageSize) ==
    IF pageSize = 0 THEN -1 ELSE rSize \div pageSize

\* analyze::mergeOutput lines 366-375, loop from index i
RECURSIVE MergeFrom(_, _, _)
MergeFrom(cur, new, i) ==
    IF i >= VecSize(new) THEN cur
    ELSE IF VecSize(cur) > i
         THEN MergeFrom([cur EXCEPT ![i] = Pair(MissOf(@) + MissOf(new[i]),
                                               TotalOf(@) + TotalOf(new[i]))],
                        new, i + 1)
         ELSE MergeFrom(PushBack(cur, new[i]), new, i + 1)

\* MergeOutput that overwrites an existing entry instead of adding to it
MergeOutputOverwrite(cur, new) ==
    [k \in 0..(IF VecSize(cur) > VecSize(new) THEN VecSize(cur) ELSE VecSize(new)) - 1 |->
        IF k < VecSize(new) THEN new[k] ELSE cur[k]]

MergeOutput(cur, new) == MergeFrom(cur, new, 0)

\* loop condition of analyzeOnAllPageSize, line 330
SweepContinues(cur, rSize, pSize) == cur <= Min(rSize, pSize)

\* No process object is being run by the harness actions under SweepSpec
PolicyIdle == algo = "none" /\ ram = NoRAM /\ todo = {}

\* The smallest process size whose block count at page size 1 no longer
\* fits an int (line 388).  It is entered with RAMSize 1, so that the sweep
\* stops after page size 1.
HugeProcessSize == INT_MAX \div BlocksPerPage + 1

\* main() line 530: the three numbers read, nothing computed yet
SweepInit ==
    /\ \/ RAMSize \in 1..MaxRAMSize /\ processSize \in 1..MaxProcessSize
       \/ RAMSize = 1 /\ processSize = HugeProcessSize
    /\ noOfProcess \in 1..MaxProcesses
    /\ randSeq \in [1..RandLen -> 0..(RandLen - 1)]
    /\ randPos = 0
    /\ curPageSize = 0 /\ procIdx = 0
    /\ curOutput = <<>> /\ mainOutput = <<>>
    /\ hpc = "create"
    /\ rows = <<>> /\ rowArgs = <<>>
    /\ execNo = 1 /\ firstOutput = <<>>
    /\ pageID = <<>> /\ noOfPages = 0 /\ noOfRAMPages = 0
    /\ processOutput = BlankOutput
    /\ PolicyIdle

\* line 331: analyze::createAnalyze for the current page size
CreateAnalyze ==
    /\ hpc = "create"
    /\ SweepContinues(curPageSize, RAMSize, processSize)
    /\ noOfPages' = PagesPerProcess(processSize, curPageSize)
    /\ noOfRAMPages' = FrameCapacity(RAMSize, curPageSize)
    /\ curOutput' = <<>>
    /\ procIdx' = 0
    /\ rows' = <<>>
    /\ hpc' = "run"
    /\ UNCHANGED <<pageID, processOutput, algo, ram, todo, RAMSize, noOfProcess,
                   processSize, curPageSize, mainOutput, randSeq, randPos,
                   rowArgs, execNo, firstOutput>>

\* lines 356-360: one iteration of the loop of analyze::runProcesses
RunOneProcess ==
    /\ hpc = "run"
    /\ procIdx < noOfProcess
    /\ pageID' \in CreateProcess(noOfPages, randSeq, randPos)
    /\ randPos' = randPos + Len(pageID')
    /\ processOutput' \in RunProcess(pageID', noOfPages, noOfRAMPages)
    /\ curOutput' = MergeOutput(curOutput, processOutput')
    /\ rows' = Append(rows, processOutput')
    /\ procIdx' = procIdx + 1
    /\ UNCHANGED <<noOfPages, noOfRAMPages, algo, ram, todo, RAMSize, noOfProcess,
                   processSize, curPageSize, mainOutput, hpc, randSeq,
                   rowArgs, execNo, firstOutput>>

\* lines 362-363 and the loop increment of line 330: the row is appended
AppendRow ==
    /\ hpc = "run"
    /\ procIdx >= noOfProcess
    /\ mainOutput' = Append(mainOutput, curOutput)
    /\ rowArgs' = Append(rowArgs, [pageSize |-> curPageSize,
                                   noOfPages |-> noOfPages,
                                   noOfRAMPages |-> noOfRAMPages])
    /\ curPageSize' = curPageSize + 1
    /\ hpc' = "create"
    /\ UNCHANGED <<policyVars, RAMSize, noOfProcess, processSize, procIdx,
                   curOutput, randSeq, randPos, rows, execNo, firstOutput>>

\* line 330: loop exit, the sweep is over
SweepEnd ==
    /\ hpc = "create"
    /\ ~SweepContinues(curPageSize, RAMSize, processSize)
    /\ hpc' = "done"
    /\ UNCHANGED <<policyVars, RAMSize, noOfProcess, processSize, curPageSize,
                   procIdx, curOutput, mainOutput, randSeq, randPos, rows,
                   rowArgs, execNo, firstOutput>>

\* main() run a second time on the same three numbers: rand() is never
\* seeded, so it yields the same sequence again
SecondExecution ==
    /\ hpc = "done" /\ execNo = 1
    /\ firstOutput' = mainOutput
    /\ execNo' = 2
    /\ randPos' = 0
    /\ curPageSize' = 0 /\ procIdx' = 0
    /\ curOutput' = <<>> /\ mainOutput' = <<>>
    /\ rows' = <<>> /\ rowArgs' = <<>>
    /\ hpc' = "create"
    /\ pageID' = <<>> /\ noOfPages' = 0 /\ noOfRAMPages' = 0
    /\ processOutput' = BlankOutput
    /\ UNCHANGED <<algo, ram, todo, RAMSize, noOfProcess, processSize, randSeq>>

SweepNext ==
    \/ CreateAnalyze
    \/ RunOneProcess
    \/ AppendRow
    \/ SweepEnd
    \/ SecondExecution

SweepSpec == SweepInit /\ [][SweepNext]_vars

----------------------------------------------------------------------------
(* Properties of processRAM, checked under Spec *)

\* The pair processRAM of algorithm a returned
Res(a) == processOutput[AlgoID[a]]

\* processRAM of a has returned
Done(a) == algo # a /\ a \notin todo /\ noOfPages # -1

Distinct(trace) == Cardinality(Range(trace))

\* identifiers referenced at positions 0 .. i-1
Seen(trace, i) == {trace[k] : k \in 1..i}

\* index of the first reference to p at a position >= i, or total
CurNext(trace, i, p) ==
    LET F == {j \in i..(Len(trace) - 1) : At(trace, j) = p}
    IN IF F = {} THEN Len(trace) ELSE CHOOSE j \in F : \A k \in F : j <= k

\* C1 (as claimed): with frameCapacity >= 1, OPT's missCount is at most the
\* missCount of FIFO, of LRU and of MRU on the same trace and capacity.
C1_OptNeverWorse ==
    (Returned /\ noOfRAMPages >= 1) =>
        \A a \in {"FIFO", "LRU", "MRU"} : MissOf(Res("OPT")) <= MissOf(Res(a))

\* C2: with frameCapacity >= number of distinct identifiers, every policy
\* returns missCount = number of distinct identifiers; while it runs nothing
\* is evicted: the resident set is exactly the identifiers referenced so far
\* and each of them missed once.
C2_ColdStartOnly ==
    (noOfPages # -1 /\ noOfRAMPages >= Distinct(pageID)) =>
        /\ \A a \in Algos : Done(a) => MissOf(Res(a)) = Distinct(pageID)
        /\ algo # "none" =>
              /\ ram.cache = Seen(pageID, ram.i)
              /\ ram.missCount = Cardinality(ram.cache)

\* C2 witness: all four policies returned on a trace with a repeated
\* identifier and at least two distinct ones, capacity exactly the number of
\* distinct identifiers.
C2_Witness ==
    /\ Returned /\ noOfPages # -1
    /\ noOfRAMPages = Distinct(pageID)
    /\ Distinct(pageID) >= 2
    /\ Len(pageID) > Distinct(pageID)
    /\ \A a \in Algos : MissOf(Res(a)) = Distinct(pageID)

\* C3 (as claimed): with frameCapacity = 0 every policy returns
\* missCount = total, and no identifier is resident when a reference is
\* examined.
C3_ZeroCapacityAllMiss ==
    (noOfPages # -1 /\ noOfRAMPages = 0) =>
        /\ \A a \in Algos : Done(a) => MissOf(Res(a)) = Len(pageID)
        /\ (algo # "none" /\ ram.i < ram.total) => ram.cache = {}

\* C4 (as claimed): on the scenario trace with capacity 3, FIFO returns 9
\* misses, LRU 10, OPT 7, MRU a count in [7, 10] not below OPT's, and every
\* policy returns total = 12.
C4_ScenarioCounts ==
    (Returned /\ pageID = Scenario.trace /\ noOfRAMPages = Scenario.cap) =>
        /\ MissOf(Res("FIFO")) = 9
        /\ MissOf(Res("LRU")) = 10
        /\ MissOf(Res("OPT")) = 7
        /\ MissOf(Res("MRU")) \in 7..10
        /\ MissOf(Res("MRU")) >= MissOf(Res("OPT"))
        /\ \A a \in Algos : TotalOf(Res(a)) = 12

\* C6: with frameCapacity >= 1, every pair a processRAM returns has
\* total = length of the trace and 0 <= missCount <= total.
C6_ResultWellFormed ==
    \A a \in Algos :
        (Done(a) /\ noOfRAMPages >= 1) =>
            /\ TotalOf(Res(a)) = Len(pageID)
            /\ 0 <= MissOf(Res(a))
            /\ MissOf(Res(a)) <= TotalOf(Res(a))

\* C6 witness: a policy returned from a trace with a hit and a miss in it,
\* capacity >= 1.
C6_Witness ==
    \E a \in Algos :
        /\ Done(a) /\ noOfRAMPages >= 1
        /\ TotalOf(Res(a)) = Len(pageID)
        /\ 0 < MissOf(Res(a))
        /\ MissOf(Res(a)) < TotalOf(Res(a))

\* The step-by-step execution of runProcess returns one of the rows of the
\* function RunProcess that the sweep uses.
StepwiseAgreesWithRunProcess ==
    Returned => processOutput \in RunProcess(pageID, noOfPages, noOfRAMPages)

\* C10 (as claimed): in OPT, after every processed reference, occSet holds
\* one entry per resident, that resident's current next-occurrence index, so
\* occSet and the resident set have the same number of entries.
C10_OccSetPerResident ==
    (algo = "OPT" /\ noOfRAMPages >= 1) =>
        /\ Cardinality(ram.occSet) = Cardinality(ram.cache)
        /\ ram.occSet = {CurNext(pageID, ram.i, p) : p \in ram.cache}

\* C11: when the sentinel applies (pagesPerProcess = -1, frameCapacity = -1)
\* runProcess returns (-1, -1) for each of the four algorithms and no
\* processRAM is ever entered.
C11_SentinelSkipsPolicies ==
    (noOfPages = -1 /\ noOfRAMPages = -1) =>
        /\ algo = "none" /\ ram = NoRAM
        /\ \A a \in Algos : Res(a) = Pair(-1, -1)

\* C11 witness: runProcess returned for the sentinel process object with
\* every algorithm's entry (-1, -1).
C11_Witness ==
    /\ noOfPages = -1 /\ noOfRAMPages = -1
    /\ Returned
    /\ \A a \in Algos : Res(a) = Pair(-1, -1)

\* the executing OPT is about to process a miss with the resident set full
OPTFullMiss ==
    /\ algo = "OPT" /\ noOfRAMPages >= 1
    /\ ram.i < ram.total
    /\ At(pageID, ram.i) \notin ram.cache
    /\ Cardinality(ram.cache) = noOfRAMPages

\* C13 (as claimed): in OPT with frameCapacity >= 1, every miss that finds
\* the resident set full removes a resident whose current next-occurrence
\* index is the largest (total for one never referenced again) from both
\* occSet and the resident set, and then inserts the new identifier.
C13_OptEvictsFurthest ==
    [][(Reference /\ OPTFullMiss) =>
         \E v \in ram.cache :
            /\ \A q \in ram.cache :
                  CurNext(pageID, ram.i, q) <= CurNext(pageID, ram.i, v)
            /\ ram'.cache = (ram.cache \ {v}) \cup {At(pageID, ram.i)}
            /\ ram'.occSet = (ram.occSet \ {CurNext(pageID, ram.i, v)})
                                \cup {CurNext(pageID, ram.i + 1, At(pageID, ram.i))}]_vars

\* C14 (as claimed): in OPT with frameCapacity >= 1 the resident set holds
\* at most frameCapacity identifiers after every processed reference.
C14_OptWithinCapacity ==
    (algo = "OPT" /\ noOfRAMPages >= 1) =>
        Cardinality(ram.cache) <= noOfRAMPages

\* C15 (as claimed): in OPT with frameCapacity >= 1 every removeAt used in
\* pageID[removeAt] lies in [0, total - 1].
C15_RemoveAtInBounds ==
    OPTFullMiss =>
        \A removeAt \in OPTRemoveAt(ram, pageID) :
            0 <= removeAt /\ removeAt <= ram.total - 1

\* Reference furthest-future-use simulation holding at most cap residents:
\* misses on positions i .. total-1 starting from the resident set C
RECURSIVE BeladyMisses(_, _, _, _)
BeladyMisses(trace, cap, i, C) ==
    IF i >= Len(trace) THEN 0
    ELSE LET id == At(trace, i) IN
         IF id \in C THEN BeladyMisses(trace, cap, i + 1, C)
         ELSE IF Cardinality(C) < cap
              THEN 1 + BeladyMisses(trace, cap, i + 1, C \cup {id})
              ELSE LET v == CHOOSE p \in C : \A q \in C :
                                CurNext(trace, i, q) <= CurNext(trace, i, p)
                   IN 1 + BeladyMisses(trace, cap, i + 1, (C \ {v}) \cup {id})

\* C16 (as claimed): with frameCapacity >= 1 the missCount OPT returns
\* equals the miss count of the furthest-future-use simulation with at most
\* frameCapacity residents, never more and never fewer.
C16_OptIsBelady ==
    (Returned /\ noOfRAMPages >= 1) =>
        MissOf(Res("OPT")) = BeladyMisses(pageID, noOfRAMPages, 0, {})

\* Reference FIFO by load time: identifier -> position at which it was last
\* brought in, for the residents after positions 0 .. i-1; a full miss drops
\* the resident with the oldest load time.
RECURSIVE FifoLoadTimes(_, _, _)
FifoLoadTimes(trace, cap, i) ==
    IF i = 0 THEN EmptyMap
    ELSE LET m == FifoLoadTimes(trace, cap, i - 1)
             id == At(trace, i - 1)
             oldest == CHOOSE p \in DOMAIN m : \A q \in DOMAIN m : m[p] <= m[q]
             kept == IF Cardinality(DOMAIN m) >= cap
                         THEN [p \in (DOMAIN m) \ {oldest} |-> m[p]]
                         ELSE m
         IN IF id \in DOMAIN m THEN m ELSE MapPut(kept, id, i - 1)

\* the queue holds exactly the residents, each once, oldest load first
FifoQueueInOrder ==
    (algo = "FIFO" /\ noOfRAMPages >= 1) =>
        LET m == FifoLoadTimes(pageID, noOfRAMPages, ram.i) IN
        /\ ram.cache = DOMAIN m
        /\ Range(ram.order) = ram.cache
        /\ Len(ram.order) = Cardinality(ram.cache)
        /\ \A k, l \in 1..Len(ram.order) :
              k < l => m[ram.order[k]] < m[ram.order[l]]

\* a hit changes neither structure; a full miss evicts the front of the
\* queue; every miss appends the new identifier at the back
FifoStepShape ==
    (Reference /\ algo = "FIFO" /\ noOfRAMPages >= 1) =>
        LET id == At(pageID, ram.i) IN
        IF id \in ram.cache
        THEN ram'.order = ram.order /\ ram'.cache = ram.cache
        ELSE IF Cardinality(ram.cache) = noOfRAMPages
             THEN /\ ram'.cache = (ram.cache \ {Head(ram.order)}) \cup {id}
                  /\ ram'.order = Append(Tail(ram.order), id)
             ELSE /\ ram'.cache = ram.cache \cup {id}
                  /\ ram'.order = Append(ram.order, id)

\* C17: in FIFO with frameCapacity >= 1, after every processed reference the
\* queue contains exactly the residents, each once, in the order of their
\* most recent insertion; a miss that finds the resident set full evicts the
\* front of the queue; a hit changes neither the queue nor the resident set.
C17_FifoQueue == []FifoQueueInOrder /\ [][FifoStepShape]_vars

\* C17 witness: FIFO with capacity >= 2 has evicted at least once and has
\* seen a hit, and its queue is the residents by load time.
C17_Witness ==
    /\ algo = "FIFO" /\ noOfRAMPages >= 2
    /\ ram.missCount > noOfRAMPages
    /\ ram.i > ram.missCount
    /\ Len(ram.order) = noOfRAMPages
    /\ FifoQueueInOrder

\* position of the most recent reference to p before position i
LastRef(trace, i, p) == Max({j \in 0..(i - 1) : At(trace, j) = p})

\* the executing policy a is about to process a miss with the resident set
\* full, frameCapacity >= 1
FullMiss(a) ==
    /\ algo = a /\ noOfRAMPages >= 1
    /\ ram.i < ram.total
    /\ At(pageID, ram.i) \notin ram.cache
    /\ Cardinality(ram.cache) = noOfRAMPages

\* every resident's lastUsed is the position of its most recent reference,
\* so no two residents share one
LruIndexExact ==
    (algo = "LRU" /\ noOfRAMPages >= 1) =>
        /\ \A p \in ram.cache :
              /\ p \in DOMAIN ram.lastUsed
              /\ ram.lastUsed[p] = LastRef(pageID, ram.i, p)
        /\ \A p, q \in ram.cache :
              ram.lastUsed[p] = ram.lastUsed[q] => p = q

\* every reference stores its position; a full miss evicts exactly the
\* resident referenced longest ago
LruStepShape ==
    (Reference /\ algo = "LRU" /\ noOfRAMPages >= 1) =>
        /\ ram'.lastUsed[At(pageID, ram.i)] = ram.i
        /\ FullMiss("LRU") =>
              \E v \in ram.cache :
                 /\ \A q \in ram.cache :
                       LastRef(pageID, ram.i, v) <= LastRef(pageID, ram.i, q)
                 /\ ram.cache \ ram'.cache = {v}
                 /\ ram'.cache = (ram.cache \ {v}) \cup {At(pageID, ram.i)}

\* C18: in LRU with frameCapacity >= 1, a miss at position i that finds the
\* resident set full evicts exactly one identifier, the resident whose most
\* recent reference before i is the earliest; every reference, hit or miss,
\* sets the referenced identifier's lastUsed to i, so no two residents share
\* a lastUsed index.
C18_LruEvictsLeastRecent == []LruIndexExact /\ [][LruStepShape]_vars

\* C18 witness: LRU with capacity >= 2 has evicted and has seen a hit, the
\* resident set is full and the lastUsed indices are exact.
C18_Witness ==
    /\ algo = "LRU" /\ noOfRAMPages >= 2
    /\ ram.missCount > noOfRAMPages
    /\ ram.i > ram.missCount
    /\ Cardinality(ram.cache) = noOfRAMPages
    /\ \A p \in ram.cache : ram.lastUsed[p] = LastRef(pageID, ram.i, p)

\* C19: in MRU with frameCapacity >= 1, a miss at position i that finds the
\* resident set full evicts exactly one identifier, the resident with the
\* largest lastUsed index, which is the identifier referenced at i - 1.
C19_MruEvictsPrevious ==
    [][(Reference /\ FullMiss("MRU")) =>
         \E v \in ram.cache :
            /\ \A q \in ram.cache : ram.lastUsed[q] <= ram.lastUsed[v]
            /\ ram.i >= 1 /\ v = At(pageID, ram.i - 1)
            /\ ram.cache \ ram'.cache = {v}
            /\ ram'.cache = (ram.cache \ {v}) \cup {At(pageID, ram.i)}]_vars

\* C19 witness: MRU with capacity >= 2 has just evicted the identifier
\* referenced one position earlier.
C19_Witness ==
    /\ algo = "MRU" /\ noOfRAMPages >= 2
    /\ ram.missCount > noOfRAMPages
    /\ ram.i >= 2
    /\ At(pageID, ram.i - 2) \notin ram.cache
    /\ At(pageID, ram.i - 1) \in ram.cache
    /\ Cardinality(ram.cache) = noOfRAMPages

\* C20: in FIFO, LRU and MRU with frameCapacity >= 1, after every processed
\* reference the resident set holds at most frameCapacity identifiers and
\* contains the identifier just referenced.
C20_WithinCapacity ==
    (algo \in {"FIFO", "LRU", "MRU"} /\ noOfRAMPages >= 1) =>
        /\ Cardinality(ram.cache) <= noOfRAMPages
        /\ ram.i >= 1 => At(pageID, ram.i - 1) \in ram.cache

\* C20 witness: one of the three policies, after an eviction, holds exactly
\* frameCapacity residents, the last referenced identifier among them.
C20_Witness ==
    /\ algo \in {"FIFO", "LRU", "MRU"} /\ noOfRAMPages >= 1
    /\ ram.missCount > noOfRAMPages
    /\ Cardinality(ram.cache) = noOfRAMPages
    /\ At(pageID, ram.i - 1) \in ram.cache

----------------------------------------------------------------------------
(* Properties of the sweep, checked under SweepSpec *)

\* the row of the matrix for page size k
RowOf(matrix, k) == matrix[k + 1]

\* runProcesses merging the process rows rs, in the order of rs
RECURSIVE MergeAll(_, _)
MergeAll(cur, rs) ==
    IF rs = <<>> THEN cur ELSE MergeAll(MergeOutput(cur, Head(rs)), Tail(rs))

RECURSIVE SumOver(_, _, _)
SumOver(rs, k, field) ==
    IF rs = <<>> THEN 0 ELSE Head(rs)[k][field + 1] + SumOver(Tail(rs), k, field)

Perms(n) == {f \in [1..n -> 1..n] : \A x, y \in 1..n : f[x] = f[y] => x = y}

\* q is a / b rounded up, rounded down (a >= 0, b >= 1)
IsCeilDiv(q, a, b) == q >= 0 /\ q * b >= a /\ (q - 1) * b < a
IsFloorDiv(q, a, b) == q >= 0 /\ q * b <= a /\ (q + 1) * b > a

\* C5 (as claimed): when the sweep has finished, the row for page size 0
\* holds exactly (-1, -1) for each of the four algorithms.
C5_SentinelRow ==
    hpc = "done" =>
        \A a \in Algos : RowOf(mainOutput, 0)[AlgoID[a]] = Pair(-1, -1)

\* C7: for every page size >= 1 and every algorithm, the cell handed to the
\* matrix has miss = sum of the per-process miss counts and total = sum of
\* the per-process totals over all noOfProcess processes, and merging the
\* process rows in any other order gives the same cells.
C7_CellIsSum ==
    (hpc = "create" /\ curPageSize >= 2) =>
        LET cell == RowOf(mainOutput, curPageSize - 1) IN
        /\ Len(rows) = noOfProcess
        /\ \A a \in Algos :
              cell[AlgoID[a]] = Pair(SumOver(rows, AlgoID[a], MISS),
                                     SumOver(rows, AlgoID[a], TOTAL))
        /\ \A f \in Perms(Len(rows)) :
              \A a \in Algos :
                 MergeAll(<<>>, [k \in 1..Len(rows) |-> rows[f[k]]])[AlgoID[a]]
                     = cell[AlgoID[a]]

\* C7 witness: a row for a page size >= 1 was appended after merging two
\* process rows that differ in some algorithm's miss count.
C7_Witness ==
    /\ hpc = "create" /\ curPageSize >= 2
    /\ Len(rows) >= 2
    /\ \E a \in Algos : MissOf(rows[1][AlgoID[a]]) # MissOf(rows[2][AlgoID[a]])
    /\ \A a \in Algos :
          RowOf(mainOutput, curPageSize - 1)[AlgoID[a]]
              = Pair(SumOver(rows, AlgoID[a], MISS), SumOver(rows, AlgoID[a], TOTAL))

\* C8 (as claimed): two executions of the sweep on the same three numbers
\* and the same traces end with identical result matrices.
C8_SameMatrixTwice ==
    (execNo = 2 /\ hpc = "done") => mainOutput = firstOutput

C12_GeneratorNeverSeesSentinel ==
    [][RunOneProcess => noOfPages # -1]_vars

\* processRAM of some policy ran in the step: its entry of the row just
\* produced is no longer the (-1, -1) that runProcess starts from
PolicyInvoked ==
    \E a \in Algos : processOutput'[AlgoID[a]] # Pair(-1, -1)

\* C21 (as claimed): for positive RAMSize, processSize and processCount,
\* every policy invocation made during the sweep receives frameCapacity >= 1
\* and a trace of length BlocksPerPage * pagesPerProcess (the length divided
\* by BlocksPerPage is pagesPerProcess, without remainder) with
\* pagesPerProcess >= 1 and every element in 1 .. pagesPerProcess;
\* frameCapacity 0 and the -1 sentinel never reach any policy's processRAM.
C21_PolicyInputsInContract ==
    [][(RunOneProcess /\ PolicyInvoked) =>
          /\ RAMSize >= 1 /\ processSize >= 1 /\ noOfProcess >= 1
          /\ noOfRAMPages >= 1
          /\ noOfPages >= 1
          /\ Len(pageID') % BlocksPerPage = 0
          /\ Len(pageID') \div BlocksPerPage = noOfPages
          /\ \A k \in 1..Len(pageID') : pageID'[k] \in 1..noOfPages]_vars

====
